---- MODULE Spec2Model ----
(***************************************************************************)
(* Model of auth-rs: the Argon2 password codec of src/src/password.rs      *)
(* (PasswordAuthExt::hash_password / check_password) and the user-creation *)
(* handler of src/src/manage.rs (create), against the backend traits of    *)
(* src/src/spec.rs.                                                        *)
(*                                                                         *)
(* Strings are sequences of tokens, so that PasswordHash::to_string and    *)
(* PasswordHash::new are a real formatter and a real parser.  The argon2   *)
(* crate is idealised the usual symbolic way: the key-derivation function  *)
(* is injective in (password, salt), and the OS random generator never     *)
(* returns a salt it has returned before.                                  *)
(***************************************************************************)
EXTENDS Integers, Sequences, FiniteSets, TLC

\* ------------------------------------------------------------------ bounds
MaxPwdLen == 1      \* longest plaintext / attempt, in characters
NumChars  == 1      \* size of the plaintext alphabet
NumSalts  == 3      \* how many salts the OS random generator can hand out

\* --------------------------------------------------------------- constants
CONFLICT              == 409
INTERNAL_SERVER_ERROR == 500

Users == {"u1", "u2"}          \* PasswordAuth objects
Procs == {"c1", "c2"}          \* invocations of create
Names == {"alice", "bob"}
BackendErrors == {"db-down"}
Salts == 1 .. NumSalts

\* ----------------------------------------------------------------- strings
Tok(c, v) == [c |-> c, v |-> v]
DOLLAR    == Tok("$", 0)
ARGON2ID  == Tok("argon2id", 0)
PBKDF2    == Tok("pbkdf2-sha256", 0)
V19       == Tok("v=19", 0)
PARAMS    == Tok("m=19456,t=2,p=1", 0)
B64(n)    == Tok("b64", n)
Ch(i)     == Tok("char", i)

CharToks  == {Ch(i) : i \in 1 .. NumChars}
Passwords == UNION {[1 .. n -> CharToks] : n \in 0 .. MaxPwdLen}

\* ------------------------------------------------------------------ argon2
RECURSIVE Code(_)
Code(p) == IF Len(p) = 0 THEN 0 ELSE p[1].v + (NumChars + 1) * Code(Tail(p))

\* Argon2id digest of a password under a salt (default parameters).
Digest(pwd, salt) == (Code(pwd) + 1) * (NumSalts + 1) + salt

NoHash == [ok |-> FALSE, algorithm |-> "", version |-> "", params |-> "", salt |-> -1, hash |-> -1]

\* Argon2::hash_password(password, &salt): the PasswordHash value, or an error
\* when the KDF rejects the input.
argon2_hash_password(pwd, salt, kdfOk) ==
    IF kdfOk
    THEN [ok |-> TRUE, algorithm |-> "argon2id", version |-> "v=19", params |-> "m=19456,t=2,p=1",
          salt |-> salt, hash |-> Digest(pwd, salt)]
    ELSE NoHash

\* PasswordHash::to_string: $algorithm$version$params$salt$hash
to_string(ph) ==
    <<DOLLAR, Tok(ph.algorithm, 0), DOLLAR, Tok(ph.version, 0), DOLLAR, Tok(ph.params, 0),
      DOLLAR, B64(ph.salt), DOLLAR, B64(ph.hash)>>

Idents == {"argon2id", "pbkdf2-sha256"}
Rank(t) == IF t.c = "v=19" THEN 1
           ELSE IF t.c = "m=19456,t=2,p=1" THEN 2
           ELSE IF t.c = "b64" THEN 3
           ELSE 0

\* The fields of a '$'-separated string, or <<>> when it is not of that shape.
Fields(s) ==
    IF /\ Len(s) >= 2
       /\ Len(s) % 2 = 0
       /\ \A i \in 1 .. Len(s) : (i % 2 = 1) <=> (s[i] = DOLLAR)
    THEN [i \in 1 .. (Len(s) \div 2) |-> s[2 * i]]
    ELSE <<>>

\* PasswordHash::new: $id[$version][$params][$salt[$hash]]
PasswordHash_new(s) ==
    LET f == Fields(s)
        n == Len(f)
        at(r) == {i \in 2 .. n : Rank(f[i]) = r}
        b == at(3)
    IN  IF /\ n >= 1
           /\ n <= 5
           /\ f[1].c \in Idents
           /\ \A i \in 2 .. n : Rank(f[i]) > 0
           /\ \A i, j \in 2 .. n : i < j => Rank(f[i]) <= Rank(f[j])
           /\ Cardinality(at(1)) <= 1
           /\ Cardinality(at(2)) <= 1
           /\ Cardinality(b) <= 2
        THEN [ok |-> TRUE, algorithm |-> f[1].c,
              version |-> IF at(1) = {} THEN "" ELSE "v=19",
              params |-> IF at(2) = {} THEN "" ELSE "m=19456,t=2,p=1",
              salt |-> IF b = {} THEN -1 ELSE f[CHOOSE i \in b : \A j \in b : i <= j].v,
              hash |-> IF Cardinality(b) < 2 THEN -1 ELSE f[n].v]
        ELSE NoHash

\* Argon2::verify_password(attempt, &hash): "Ok", or the password_hash::Error.
verify_password(attempt, ph) ==
    IF ph.salt # -1 /\ ph.hash # -1
    THEN IF ph.algorithm # "argon2id" THEN "Algorithm"
         ELSE IF Digest(attempt, ph.salt) = ph.hash THEN "Ok"
         ELSE "Password"
    ELSE "Password"

\* ---------------------------------------------------- PasswordAuthExt codec
\* hash_password with the salt left out of the draw: every call uses salt 1.
hash_password_fixed_salt(pw, salt, kdfOk) ==
    LET hpassword == argon2_hash_password(pw, 1, kdfOk)
    IN  IF hpassword.ok
        THEN [res |-> "Ok", pass |-> to_string(hpassword)]
        ELSE [res |-> "HashCompute", pass |-> pw]

\* PasswordAuthExt::hash_password on a slot holding pw, with the salt OsRng
\* drew: the result and the slot afterwards.
hash_password(pw, salt, kdfOk) ==
    LET hpassword == argon2_hash_password(pw, salt, kdfOk)
    IN  IF hpassword.ok
        THEN [res |-> "Ok", pass |-> to_string(hpassword)]
        ELSE [res |-> "HashCompute", pass |-> pw]

\* check_password comparing the attempt with the stored string itself.
check_password_plain(pw, attempt) ==
    IF pw = attempt THEN "Ok(true)" ELSE "Ok(false)"

\* check_password without the arm for a mismatch.
check_password_no_mismatch_arm(pw, attempt) ==
    LET hash == PasswordHash_new(pw)
    IN  IF ~hash.ok THEN "HashParse"
        ELSE IF verify_password(attempt, hash) = "Ok" THEN "Ok(true)"
        ELSE "HashVerify"

\* check_password reporting an unparsable stored string as a mismatch.
check_password_parse_as_mismatch(pw, attempt) ==
    LET hash == PasswordHash_new(pw)
        v == verify_password(attempt, hash)
    IN  IF ~hash.ok THEN "Ok(false)"
        ELSE IF v = "Ok" THEN "Ok(true)"
        ELSE IF v = "Password" THEN "Ok(false)"
        ELSE "HashVerify"

\* PasswordAuthExt::check_password on a slot holding pw.
check_password(pw, attempt) ==
    LET hash == PasswordHash_new(pw)
        v == verify_password(attempt, hash)
    IN  IF ~hash.ok THEN "HashParse"
        ELSE IF v = "Ok" THEN "Ok(true)"
        ELSE IF v = "Password" THEN "Ok(false)"
        ELSE "HashVerify"

\* ------------------------------------------------------------------ inputs
\* Stored strings that are no hash string: truncated, no leading '$', a
\* plaintext character where the salt belongs, an unknown first field.
Malformed ==
    { <<DOLLAR>>,
      <<DOLLAR, ARGON2ID, DOLLAR>>,
      <<ARGON2ID, DOLLAR, V19, DOLLAR, PARAMS, DOLLAR, B64(0), DOLLAR, B64(0)>>,
      <<DOLLAR, ARGON2ID, DOLLAR, V19, DOLLAR, PARAMS, DOLLAR, Ch(1), DOLLAR, B64(0)>>,
      <<DOLLAR, Ch(1), DOLLAR, V19>> }

\* Stored strings that parse but were not written by hash_password here: another
\* algorithm, no salt and digest, a digest of no password.
Foreign ==
    { <<DOLLAR, PBKDF2, DOLLAR, B64(0), DOLLAR, B64(0)>>,
      <<DOLLAR, ARGON2ID>>,
      <<DOLLAR, ARGON2ID, DOLLAR, V19, DOLLAR, PARAMS, DOLLAR, B64(0), DOLLAR, B64(0)>> }

InitStrings == Passwords \cup Malformed \cup Foreign

\* ------------------------------------------------------------------ manage
NoOutcome == [kind |-> "none", status |-> 0, id |-> "", message |-> <<>>]
Unit      == [kind |-> "unit", status |-> 0, id |-> "", message |-> <<>>]

\* manage::Error values
ConnectorUserExists(user, err) == [tag |-> "ConnectorUserExists", name |-> user, err |-> err]
PasswordHashErr(err)           == [tag |-> "PasswordHash", name |-> "", err |-> err]
UserExists(name)               == [tag |-> "UserExists", name |-> name, err |-> ""]

\* into_response that formats the cause into the message.
into_response_leaky(e) ==
    IF e.tag \in {"ConnectorUserExists", "PasswordHash"}
    THEN [kind |-> "response", status |-> INTERNAL_SERVER_ERROR, id |-> "internal-error",
          message |-> <<"An internal error has occurred", e.err>>]
    ELSE [kind |-> "response", status |-> CONFLICT, id |-> "user-exists",
          message |-> <<"A user with name '", e.name, "' already exists">>]

\* Error::into_response
into_response(e) ==
    IF e.tag \in {"ConnectorUserExists", "PasswordHash"}
    THEN [kind |-> "response", status |-> INTERNAL_SERVER_ERROR, id |-> "internal-error",
          message |-> <<"An internal error has occurred">>]
    ELSE [kind |-> "response", status |-> CONFLICT, id |-> "user-exists",
          message |-> <<"A user with name '", e.name, "' already exists">>]

\* AuthConnector::user_exists(name): what a backend holding b.users can answer.
user_exists(b, name) ==
    {[ok |-> TRUE, val |-> (name \in b.users), err |-> ""]}
        \cup {[ok |-> FALSE, val |-> FALSE, err |-> e] : e \in BackendErrors}

\* AuthConnector::insert_user(info): what the backend would answer.  It fails
\* with its own error, or, when it keeps names unique itself, on a name it holds.
insert_user(b, info) ==
    IF b.insertErr # "" THEN [ok |-> FALSE, err |-> b.insertErr]
    ELSE IF b.unique /\ info.name \in b.users THEN [ok |-> FALSE, err |-> "duplicate"]
    ELSE [ok |-> TRUE, err |-> ""]

ExistsTag(r) == IF ~r.ok THEN "Err" ELSE IF r.val THEN "Ok(true)" ELSE "Ok(false)"

IdleCall ==
    [pc |-> "idle", name |-> "", pass |-> <<>>, plain |-> <<>>, exists |-> "none",
     experr |-> "", hash |-> "none", salt |-> 0, outcome |-> NoOutcome, conc |-> FALSE]

\* create, on entry: info is the deserialized body.
create_start(n, p) == [IdleCall EXCEPT !.pc = "step1", !.name = n, !.pass = p, !.plain = p]

\* create, step 1: the match on conn.user_exists(info.name()).
create_check(cl, r) ==
    IF r.ok /\ r.val THEN [cl EXCEPT !.pc = "step2", !.exists = ExistsTag(r)]
    ELSE IF r.ok
    THEN [cl EXCEPT !.pc = "done", !.exists = ExistsTag(r),
                    !.outcome = into_response(UserExists(cl.name))]
    ELSE [cl EXCEPT !.pc = "done", !.exists = ExistsTag(r), !.experr = r.err,
                    !.outcome = into_response(ConnectorUserExists(cl.name, r.err))]

\* create, step 2, that updates the record before it looks at the result.
create_hash_eager(cl, salt, kdfOk) ==
    LET hpassword == argon2_hash_password(cl.pass, salt, kdfOk)
    IN  IF hpassword.ok
        THEN [cl EXCEPT !.pc = "step3", !.hash = "Ok", !.salt = salt, !.pass = to_string(hpassword)]
        ELSE [cl EXCEPT !.pc = "done", !.hash = "Err", !.pass = to_string(hpassword),
                        !.outcome = into_response(PasswordHashErr("Password"))]

\* create, step 2: hash the password and info.update_password(hpassword).
create_hash(cl, salt, kdfOk) ==
    LET hpassword == argon2_hash_password(cl.pass, salt, kdfOk)
    IN  IF hpassword.ok
        THEN [cl EXCEPT !.pc = "step3", !.hash = "Ok", !.salt = salt, !.pass = to_string(hpassword)]
        ELSE [cl EXCEPT !.pc = "done", !.hash = "Err",
                        !.outcome = into_response(PasswordHashErr("Password"))]

\* create, step 3: nothing is handed to the backend; the function ends in Ok(()).
create_return(cl) == [cl EXCEPT !.pc = "done", !.outcome = Unit]

\* ------------------------------------------------------------------- state
VARIABLES
    pass,       \* pass[u]: the password slot of PasswordAuth object u
    plain,      \* plain[u]: what the slot held when hash_password was last called
    hashed,     \* hashed[u]: result of the last hash_password ("none" before)
    checked,    \* checked[u]: attempt and result of the last check_password
    drawn,      \* the salts OsRng has handed out
    backend,    \* the AuthConnector: its users, and what insert_user answers
    call,       \* call[c]: the state of invocation c of create
    inserted    \* the records handed to insert_user, in order

vars == <<pass, plain, hashed, checked, drawn, backend, call, inserted>>

NotChecked == [done |-> FALSE, attempt |-> <<>>, res |-> "none"]

\* start[u]: the strings the slot of u may hold at construction; backends: the
\* connectors create may be given
Backends == [users : SUBSET Names, insertErr : {""} \cup BackendErrors, unique : BOOLEAN]
NoBackend == [users |-> {}, insertErr |-> "", unique |-> FALSE]

InitOver(start, backends) ==
    /\ pass \in {f \in [Users -> InitStrings] : \A u \in Users : f[u] \in start[u]}
    /\ plain = [u \in Users |-> <<>>]
    /\ hashed = [u \in Users |-> "none"]
    /\ checked = [u \in Users |-> NotChecked]
    /\ drawn = {}
    /\ backend \in backends
    /\ call = [c \in Procs |-> IdleCall]
    /\ inserted = <<>>

\* user.hash_password(), on a slot holding a plaintext
HashPassword(u) ==
    /\ pass[u] \in Passwords
    /\ \E salt \in Salts \ drawn, kdfOk \in BOOLEAN :
          LET r == hash_password(pass[u], salt, kdfOk)
          IN  /\ pass' = [pass EXCEPT ![u] = r.pass]
              /\ plain' = [plain EXCEPT ![u] = pass[u]]
              /\ hashed' = [hashed EXCEPT ![u] = r.res]
              /\ drawn' = drawn \cup {salt}
    /\ checked' = [checked EXCEPT ![u] = NotChecked]
    /\ UNCHANGED <<backend, call, inserted>>

\* user.check_password(attempt)
CheckPassword(u) ==
    /\ \E attempt \in Passwords :
          checked' = [checked EXCEPT ![u] =
                         [done |-> TRUE, attempt |-> attempt, res |-> check_password(pass[u], attempt)]]
    /\ UNCHANGED <<pass, plain, hashed, drawn, backend, call, inserted>>

\* The create calls that have been entered and have not returned.
InFlight == {d \in Procs : call[d].pc \notin {"idle", "done"}}

\* create(context, info) is entered; conc records that the call runs while
\* another one is in flight.
CreateStart(c) ==
    /\ call[c].pc \in {"idle", "done"}
    /\ \E n \in Names, p \in Passwords :
          call' = [d \in Procs |->
                      IF d = c THEN [create_start(n, p) EXCEPT !.conc = (InFlight # {})]
                      ELSE IF d \in InFlight THEN [call[d] EXCEPT !.conc = TRUE]
                      ELSE call[d]]
    /\ UNCHANGED <<pass, plain, hashed, checked, drawn, backend, inserted>>

\* Step 1. Check if user is unique
CreateCheck(c) ==
    /\ call[c].pc = "step1"
    /\ \E r \in user_exists(backend, call[c].name) : call' = [call EXCEPT ![c] = create_check(call[c], r)]
    /\ UNCHANGED <<pass, plain, hashed, checked, drawn, backend, inserted>>

\* Step 2. Hash the password
CreateHash(c) ==
    /\ call[c].pc = "step2"
    /\ \E salt \in Salts \ drawn, kdfOk \in BOOLEAN :
          /\ call' = [call EXCEPT ![c] = create_hash(call[c], salt, kdfOk)]
          /\ drawn' = drawn \cup {salt}
    /\ UNCHANGED <<pass, plain, hashed, checked, backend, inserted>>

\* Step 3. Insert into DB and return
CreateReturn(c) ==
    /\ call[c].pc = "step3"
    /\ call' = [call EXCEPT ![c] = create_return(call[c])]
    /\ UNCHANGED <<pass, plain, hashed, checked, drawn, backend, inserted>>

CodecNext(U) ==
    \/ \E u \in U : HashPassword(u)
    \/ \E u \in U : CheckPassword(u)

\* One create call at a time, next to one PasswordAuth object that is hashed.
Init == InitOver([u \in Users |-> IF u = "u1" THEN Passwords ELSE {<<>>}], Backends)
Next ==
    \/ HashPassword("u1")
    \/ CreateStart("c1")
    \/ CreateCheck("c1")
    \/ CreateHash("c1")
    \/ CreateReturn("c1")
Spec == Init /\ [][Next]_vars

\* One PasswordAuth object holding any stored string, hashed and checked.
CodecInit == InitOver([u \in Users |-> IF u = "u1" THEN InitStrings ELSE {<<>>}], {NoBackend})
SpecCodec == CodecInit /\ [][CodecNext({"u1"})]_vars

\* Two PasswordAuth objects holding plaintexts, hashed and checked.
SaltInit == InitOver([u \in Users |-> Passwords], {NoBackend})
SpecSalt == SaltInit /\ [][CodecNext(Users)]_vars

\* Two create calls side by side, interleaved at the steps of create.
ConcInit == InitOver([u \in Users |-> {<<>>}], Backends)
ConcNext ==
    \/ \E c \in Procs : CreateStart(c)
    \/ \E c \in Procs : CreateCheck(c)
    \/ \E c \in Procs : CreateHash(c)
    \/ \E c \in Procs : CreateReturn(c)
SpecConc == ConcInit /\ [][ConcNext]_vars

\* ------------------------------------------------------------------ claims
InternalOutcome ==
    [kind |-> "response", status |-> INTERNAL_SERVER_ERROR, id |-> "internal-error",
     message |-> <<"An internal error has occurred">>]

IsConflictFor(o, n) ==
    /\ o.kind = "response"
    /\ o.status = CONFLICT
    /\ o.id = "user-exists"
    /\ \E i \in DOMAIN o.message : o.message[i] = n

IsHashString(s) == PasswordHash_new(s).ok /\ PasswordHash_new(s).algorithm = "argon2id"

\* C1: round trip.  On every record on which hash_password succeeded with the
\* slot holding p, check_password(p) answers Ok(true), whatever salt was drawn:
\* both the answer a check_password call recorded and the answer it would give.
C1_RoundTrip ==
    \A u \in Users :
        hashed[u] = "Ok" =>
            /\ check_password(pass[u], plain[u]) = "Ok(true)"
            /\ (checked[u].done /\ checked[u].attempt = plain[u]) => checked[u].res = "Ok(true)"

C1_Witness ==
    \E u \in Users :
        /\ hashed[u] = "Ok"
        /\ Len(plain[u]) > 0
        /\ checked[u].done
        /\ checked[u].attempt = plain[u]

\* C2: a wrong password is a value.  On a record hashed from p, check_password(q)
\* for an attempt q different from p answers Ok(false): never Ok(true), never an
\* error.
C2_WrongPasswordIsFalse ==
    \A u \in Users :
        hashed[u] = "Ok" =>
            /\ \A q \in Passwords \ {plain[u]} : check_password(pass[u], q) = "Ok(false)"
            /\ (checked[u].done /\ checked[u].attempt # plain[u]) => checked[u].res = "Ok(false)"

C2_Witness ==
    \E u \in Users :
        /\ hashed[u] = "Ok"
        /\ checked[u].done
        /\ checked[u].attempt # plain[u]

\* C3: when user_exists answers Ok(true) (the user exists), create returns the
\* Conflict outcome (409, "user-exists", the name in the message), and neither
\* hashes nor changes the record nor hands anything to insert_user.
C3_ExistingUserIsConflict ==
    \A c \in Procs :
        call[c].exists = "Ok(true)" =>
            /\ call[c].hash = "none"
            /\ call[c].pass = call[c].plain
            /\ inserted = <<>>
            /\ call[c].pc = "done" => IsConflictFor(call[c].outcome, call[c].name)

\* C4: when user_exists answers Ok(false) (the name is available) and hashing
\* does not fail, create ends in success with exactly one record handed to
\* insert_user, that record carrying the hash string and not the plaintext.
C4_AvailableNameIsInserted ==
    \A c \in Procs :
        (call[c].pc = "done" /\ call[c].exists = "Ok(false)" /\ call[c].hash # "Err") =>
            /\ call[c].outcome.kind = "unit"
            /\ Len(inserted) = 1
            /\ inserted[1].name = call[c].name
            /\ IsHashString(inserted[1].pass)
            /\ inserted[1].pass # call[c].plain

\* C5: when user_exists itself fails, create returns the internal outcome
\* (500, "internal-error") with the fixed generic message and nothing of the
\* backend's error in it; the password slot is untouched, nothing is hashed and
\* nothing is handed to insert_user.
C5_ExistsErrorIsInternal ==
    \A c \in Procs :
        call[c].exists = "Err" =>
            /\ call[c].pc = "done"
            /\ call[c].outcome = InternalOutcome
            /\ \A i \in DOMAIN call[c].outcome.message : call[c].outcome.message[i] # call[c].experr
            /\ call[c].pass = call[c].plain
            /\ call[c].hash = "none"
            /\ inserted = <<>>

C5_Witness ==
    \E c \in Procs :
        /\ call[c].exists = "Err"
        /\ call[c].experr \in BackendErrors
        /\ call[c].pc = "done"

\* C6: when the backend's insert_user fails, a create call that got as far as
\* the insert returns the internal outcome, with the password slot already
\* holding the hash.
C6_InsertFailureIsInternal ==
    \A c \in Procs :
        (call[c].pc = "done" /\ call[c].hash = "Ok"
            /\ ~insert_user(backend, [name |-> call[c].name, pass |-> call[c].pass]).ok) =>
            /\ call[c].outcome = InternalOutcome
            /\ IsHashString(call[c].pass)
            /\ call[c].pass # call[c].plain

C8_SaltUniqueness ==
    \A u, w \in Users :
        (u # w /\ hashed[u] = "Ok" /\ hashed[w] = "Ok" /\ plain[u] = plain[w]) =>
            /\ pass[u] # pass[w]
            /\ check_password(pass[u], plain[u]) = "Ok(true)"
            /\ check_password(pass[w], plain[u]) = "Ok(true)"
            /\ (checked[u].done /\ checked[u].attempt = plain[u]) => checked[u].res = "Ok(true)"

C8_Witness ==
    \E u, w \in Users :
        /\ u # w
        /\ hashed[u] = "Ok" /\ hashed[w] = "Ok"
        /\ plain[u] = plain[w]
        /\ checked[u].done /\ checked[u].attempt = plain[u]
        /\ checked[w].done /\ checked[w].attempt = plain[w]

\* C9: a hashing failure is surfaced and nothing is applied.  hash_password
\* answers Err(HashCompute) with the slot as it was; create ends in the
\* internal outcome with the record as it was and nothing handed to
\* insert_user.
C9_HashFailureAppliesNothing ==
    /\ \A u \in Users : hashed[u] = "HashCompute" => pass[u] = plain[u]
    /\ \A c \in Procs :
          call[c].hash = "Err" =>
              /\ call[c].pc = "done"
              /\ call[c].outcome = InternalOutcome
              /\ call[c].pass = call[c].plain
              /\ inserted = <<>>

C9_Witness ==
    /\ \E u \in Users : hashed[u] = "HashCompute" /\ Len(plain[u]) > 0
    /\ \E c \in Procs : call[c].hash = "Err" /\ call[c].exists = "Ok(true)"

\* C11: check-then-insert is not atomic here, so uniqueness rests on the
\* backend: with a backend whose insert_user rejects a name it already holds, of
\* two create calls for the same name that ran concurrently at most one ends in
\* success.
C11_UniqueBackendOneSuccess ==
    \A c, d \in Procs :
        (/\ c # d
         /\ backend.unique
         /\ call[c].conc /\ call[d].conc
         /\ call[c].pc = "done" /\ call[d].pc = "done"
         /\ call[c].name = call[d].name) =>
            ~(call[c].outcome.kind = "unit" /\ call[d].outcome.kind = "unit")
====
